---- MODULE Spec2Model ----
(***************************************************************************)
(* The request relay of RevisePal/Chatbot-Backend as a state machine.      *)
(*                                                                         *)
(* The repository holds three revisions of the same Express application:  *)
(*   "legacy"  : src/unnamed/part_000, lines 1-132                         *)
(*   "index"   : src/index.js                                              *)
(*   "current" : src/unnamed/part_000, lines 134-408                       *)
(* A behaviour fixes one revision (variant) and follows the handlers of    *)
(* the requests it serves.  A handler runs synchronously up to its next    *)
(* await; each action below is one such run: the code from the arrival of  *)
(* the request, or from the settling of the awaited promise, up to the     *)
(* next await or to the end of the handler.                                *)
(*                                                                         *)
(* JavaScript values are tagged records ([js |-> "undefined"], ...), a     *)
(* JavaScript string that the code builds or forwards is a sequence of     *)
(* text fragments, so that concatenation is \o and "contains" is a         *)
(* contiguous subsequence.                                                 *)
(***************************************************************************)
EXTENDS Integers, Sequences, FiniteSets, TLC

VARIABLES
    variant,    \* which revision of the application is running
    pc,         \* per request: where its handler stands
    req,        \* per request: the inbound request
    calls,      \* per request: the upstream calls issued so far, in order
    sent,       \* per request: the responses sent so far, in order
    local       \* per request: the handler's locals that live across awaits

vars == <<variant, pc, req, calls, sent, local>>

\* ----------------------------------------------------------------- bounds
NumReqs == 2
MaxSections == 2
MaxEnrollments == 2
MaxWords == 2
MaxChoices == 2

Reqs == 1..NumReqs

\* Several requests are being served.  The inputs of concurrently served
\* requests are drawn from the smaller of two sets, which keeps the product
\* of their states within reach; a request served alone draws from the wide
\* one.
Concurrent == Cardinality({r \in Reqs : pc[r] # "unused"}) > 1
Few(wide, narrow) == IF Concurrent THEN narrow ELSE wide

\* ------------------------------------------------------ JavaScript values
Undefined == [js |-> "undefined"]
Null == [js |-> "null"]
Str(s) == [js |-> "string", s |-> s]
Arr(items) == [js |-> "array", items |-> items]
Obj(f) == [js |-> "object", f |-> f]

\* !v : undefined, null and the empty string are falsy; arrays and objects
\* (also the empty array) are truthy.
Falsy(v) == \/ v.js \in {"undefined", "null"}
            \/ (v.js = "string" /\ v.s = "")

\* v == null : true of undefined and null only.
LooseNull(v) == v.js \in {"undefined", "null"}

\* `${v}` in a template literal.
ToStr(v) == CASE v.js = "undefined" -> "undefined"
              [] v.js = "null" -> "null"
              [] v.js = "string" -> v.s
              [] OTHER -> "[object]"

\* text t occurs in text s (both sequences of fragments)
Contains(s, t) == \E i \in 1..(Len(s) + 1) :
                      /\ i + Len(t) - 1 <= Len(s)
                      /\ SubSeq(s, i, i + Len(t) - 1) = t

\* all sequences over S of length at most n
SeqsUpTo(S, n) == UNION {[1..k -> S] : k \in 0..n}

\* new Error(message): the stack starts with the name and the message and
\* goes on with the call frames.
Err(name, message) ==
    [name |-> name, message |-> message,
     stack |-> <<name, ": ">> \o message \o <<"\n    at <frames>">>]

\* ------------------------------------------------------- profanity filter
\* filter.clean of the bad-words package: the text is split into words, every
\* word of the blacklist is replaced by asterisks, the rest is kept.
Blacklist == {"damn"}
Placeholder(word) == "****"
clean(text) == [i \in 1..Len(text) |->
                   IF text[i] \in Blacklist THEN Placeholder(text[i]) ELSE text[i]]

\* ---------------------------------------------------------------- requests
Fields == {"prompt", "conversations", "apiKey", "classCode", "courseId",
           "title", "message", "sectionName"}
NoParams == [f \in Fields |-> Undefined]

\* what a client may put in a field: nothing, null, the empty string, a value
Absent == Few({Undefined, Null, Str("")}, {Undefined})
PromptValues == Absent \cup {Str("2+2")}
UserMessage(content) == [role |-> "user", content |-> content]
ConversationValues == Absent \cup Few({Arr(<<>>), Arr(<<UserMessage(Str("2+2"))>>)},
                                      {Arr(<<UserMessage(Str("2+2"))>>)})
ApiKeyValues == Absent \cup {Str("key")}
CourseValues == Absent \cup {Str("c1")}
TitleValues == Absent \cup {Str("title")}
MessageValues == Absent \cup {Str("body")}
SectionNames == {"A", "B"}
SectionNameValues == Absent \cup Few({Str(n) : n \in SectionNames}, {Str("A")})

Domain(field) == CASE field = "prompt" -> PromptValues
                   [] field = "conversations" -> ConversationValues
                   [] field = "apiKey" -> ApiKeyValues
                   [] field \in {"classCode", "courseId"} -> CourseValues
                   [] field = "title" -> TitleValues
                   [] field = "message" -> MessageValues
                   [] field = "sectionName" -> SectionNameValues

\* the parameter objects that set (at most) the fields of fs; concurrently
\* served requests give all of the fields or none
Params(fs) ==
    {[f \in Fields |-> IF f \in fs THEN q[f] ELSE Undefined] :
        q \in {q \in [fs -> UNION {Domain(f) : f \in fs}] :
                  /\ \A f \in fs : q[f] \in Domain(f)
                  /\ Concurrent => \/ \A f \in fs : q[f] \in Absent
                                   \/ \A f \in fs : q[f] \notin Absent}}

\* a POST request with a JSON body
PostRequests(route, fs) ==
    {[route |-> route, method |-> "POST", body |-> p, query |-> NoParams] :
        p \in Params(fs)}

\* a request to an app.all route: either method, the parameters in the body
\* or in the query string
AnyRequests(route, fs) ==
    {[route |-> route, method |-> mw[1],
      body |-> IF mw[2] = "body" THEN p ELSE NoParams,
      query |-> IF mw[2] = "query" THEN p ELSE NoParams] :
        mw \in Few({"GET", "POST"} \X {"body", "query"},
                   {<<"GET", "query">>}),
        p \in Params(fs)}

NoRequest == [route |-> "none", method |-> "none", body |-> NoParams,
              query |-> NoParams]

\* ---------------------------------------------------------------- upstream
\* A model-provider call settles with a completion object or rejects (the
\* SDK throws on a network failure and on a non-2xx status).
Words == {"answer", "damn"}
Texts == Few(SeqsUpTo(Words, MaxWords), {<<"answer", "damn">>})
ApiError == Err("APIError", <<"401 Incorrect API key provided">>)
CompletionResults ==
    {[settled |-> "rejected", error |-> ApiError]}
    \cup {[settled |-> "fulfilled", choices |-> c] :
             c \in Few(SeqsUpTo(Texts, MaxChoices), SeqsUpTo(Texts, 1))}

\* An LMS call (fetch) rejects on a network failure and otherwise fulfils
\* with a response of any status; the body is read by a further await.
OkStatuses == Few({200, 201}, {201})
ErrorStatuses == Few({401, 404}, {401})
Diagnostics == Few({<<"Invalid access token.">>,
                    <<"The specified resource", " does not exist.">>},
                   {<<"Invalid access token.">>})
ErrorDoc(diag) == Obj([errors |-> diag])
SectionRecords == Few([id : {1, 2}, name : SectionNames],
                      {[id |-> 1, name |-> "B"], [id |-> 2, name |-> "A"]})
EnrollmentTypes == {"StudentEnrollment", "TeacherEnrollment"}
EnrollmentRecords == [type : EnrollmentTypes, user_id : Few({1, 2}, {1})]
CourseDoc == Obj([course_code |-> <<"c1">>])
TopicDoc == Obj([title |-> <<"title">>])

SuccessDocs(api) ==
    CASE api = "course" -> {CourseDoc}
      [] api = "sections" ->
            {Arr(s) : s \in SeqsUpTo(SectionRecords, Few(MaxSections, 1))}
            \cup Few({CourseDoc}, {})
      [] api = "enrollments" ->
            {Arr(e) : e \in SeqsUpTo(EnrollmentRecords, Few(MaxEnrollments, 1))}
            \cup Few({CourseDoc}, {})
      [] api = "discussion_topics" -> {TopicDoc}

JsonBody(doc) == [fmt |-> "json", doc |-> doc]
TextBody(raw) == [fmt |-> "text", raw |-> raw]
BrokenBody == [fmt |-> "broken"]
OtherBodies == Few({TextBody(<<"<html>Bad Gateway</html>">>), BrokenBody}, {})

Response(status, body) ==
    [settled |-> "fulfilled", status |-> status,
     ok |-> (status >= 200 /\ status <= 299), body |-> body]
NetworkError == Err("FetchError", <<"request failed, reason: ECONNRESET">>)
FetchResults(api) ==
    {[settled |-> "rejected", error |-> NetworkError]}
    \cup {Response(s, b) : s \in OkStatuses,
             b \in {JsonBody(d) : d \in SuccessDocs(api)} \cup OtherBodies}
    \cup {Response(s, b) : s \in ErrorStatuses,
             b \in {JsonBody(ErrorDoc(d)) : d \in Diagnostics} \cup OtherBodies}

\* the raw text of a JSON document, as the upstream sent it
Stringify(doc) == IF doc.js = "object" /\ "errors" \in DOMAIN doc.f
                  THEN <<"{errors:">> \o doc.f.errors \o <<"}">>
                  ELSE <<"{...}">>

\* response.text(): the raw text, or a rejection when the stream breaks
BodyError == Err("FetchError", <<"Premature close">>)
text(body) == CASE body.fmt = "json" -> [ok |-> TRUE, value |-> Stringify(body.doc)]
                [] body.fmt = "text" -> [ok |-> TRUE, value |-> body.raw]
                [] OTHER -> [ok |-> FALSE, error |-> BodyError]

\* response.json(): the parsed document, or a rejection
SyntaxError == Err("SyntaxError", <<"Unexpected token < in JSON at position 0">>)
json(body) == CASE body.fmt = "json" -> [ok |-> TRUE, value |-> body.doc]
                [] body.fmt = "text" -> [ok |-> FALSE, error |-> SyntaxError]
                [] OTHER -> [ok |-> FALSE, error |-> BodyError]

\* ------------------------------------------------------------ the server
Variants == {"legacy", "index", "current"}

\* the routes each revision registers
Routes(v) == IF v = "legacy"
             THEN {"/ask", "/checkAnswer", "/canvasProxy", "/sections"}
             ELSE {"/test", "/ask", "/checkAnswer", "/canvasProxy", "/sections",
                   "/announcements", "/students", "/question-generator"}

\* the locals a handler keeps across its awaits: the response of its (first)
\* upstream call, and for /students the matched section and the response of
\* the enrollments call
NoLocal == [response |-> Undefined, section |-> Undefined,
            studentsResponse |-> Undefined]

\* the state after construction: the requests of `served` are yet to arrive
InitWith(served) ==
    /\ variant \in Variants
    /\ pc = [r \in Reqs |-> IF r \in served THEN "idle" ELSE "unused"]
    /\ req = [r \in Reqs |-> NoRequest]
    /\ calls = [r \in Reqs |-> <<>>]
    /\ sent = [r \in Reqs |-> <<>>]
    /\ local = [r \in Reqs |-> NoLocal]

Init == InitWith({1})

\* res.status(status).json(body) / .send(body)
Reply(status, body) == [status |-> status, body |-> body]

\* (mutant) the response object kept in a module-level variable: the reply
\* goes out on the response of whichever request stored it last
FinishShared(r, q, replies) ==
    /\ pc' = [pc EXCEPT ![r] = "done"]
    /\ req' = [req EXCEPT ![r] = q]
    /\ \E s \in Reqs : /\ pc[s] # "unused"
                       /\ sent' = [sent EXCEPT ![s] = @ \o replies]
    /\ UNCHANGED <<variant, calls>>

\* the handler of request r returns after sending `replies` (none or one)
Finish(r, q, replies) ==
    /\ pc' = [pc EXCEPT ![r] = "done"]
    /\ req' = [req EXCEPT ![r] = q]
    /\ sent' = [sent EXCEPT ![r] = @ \o replies]
    /\ UNCHANGED <<variant, calls>>

\* the handler of request r issues an upstream call and suspends at `at`
Await(r, q, call, at) ==
    /\ pc' = [pc EXCEPT ![r] = at]
    /\ req' = [req EXCEPT ![r] = q]
    /\ calls' = [calls EXCEPT ![r] = Append(@, call)]
    /\ UNCHANGED <<variant, sent>>

\* the handler of request r suspends at `at` without a new upstream call
\* (reading the body of a response it already holds)
Suspend(r, at) ==
    /\ pc' = [pc EXCEPT ![r] = at]
    /\ UNCHANGED <<variant, req, calls, sent>>

\* ---------------------------------------------------- completion routes
GenericFailure ==
    Reply(500, Obj([success |-> FALSE,
                    message |-> <<"An error occurred while processing your request.">>]))
Success(message) == Reply(200, Obj([success |-> TRUE, message |-> message]))

ChatCall(model, messages) ==
    [api |-> "chat.completions", model |-> model, messages |-> messages]
LegacyCall(prompt) ==
    [api |-> "completions", model |-> "text-davinci-003", prompt |-> prompt,
     max_tokens |-> 500]

\* the catch block of /ask: the legacy revision only logs
AskCatch == IF variant = "legacy" THEN <<>> ELSE <<GenericFailure>>

\* POST /ask, up to the await of the completion
Ask(r) ==
    /\ pc[r] = "idle"
    /\ "/ask" \in Routes(variant)
    /\ local' = local
    /\ IF variant = "legacy"
       THEN \E q \in PostRequests("/ask", {"prompt"}) :
               IF LooseNull(q.body.prompt)
               THEN Finish(r, q, AskCatch)
               ELSE Await(r, q, LegacyCall(q.body.prompt), "ask.create")
       ELSE \E q \in PostRequests("/ask", {"conversations"}) :
               LET conversations == q.body.conversations IN
               IF Falsy(conversations)
                  \/ (conversations.js = "array" /\ Len(conversations.items) = 0)
               THEN Finish(r, q, AskCatch)
               ELSE Await(r, q,
                          ChatCall(IF variant = "index" THEN "gpt-3.5-turbo" ELSE "gpt-4o",
                                   conversations),
                          "ask.create")

\* the text of the first choice filtered and wrapped, or the catch block
\* when the call rejected or choices[0] is undefined
Completed(res, filtered, catch) ==
    IF res.settled = "rejected" \/ Len(res.choices) = 0
    THEN catch
    ELSE <<Success(IF filtered THEN clean(res.choices[1]) ELSE res.choices[1])>>

\* POST /ask, from the settling of the completion
AskSettled(r) ==
    /\ pc[r] = "ask.create"
    /\ \E res \in CompletionResults :
          /\ Finish(r, req[r], Completed(res, TRUE, AskCatch))
          /\ local' = IF res.settled = "rejected" THEN local
                      ELSE [local EXCEPT ![r].response = res]

\* the catch block of /checkAnswer: only the current revision responds
CheckAnswerCatch == IF variant = "current" THEN <<GenericFailure>> ELSE <<>>

\* POST /checkAnswer, up to the await of the completion.  In src/index.js
\* the argument of the call reads the undeclared `conversations`: the
\* ReferenceError is thrown inside the try before any call is made.
CheckAnswer(r) ==
    /\ pc[r] = "idle"
    /\ "/checkAnswer" \in Routes(variant)
    /\ local' = local
    /\ \E q \in PostRequests("/checkAnswer", {"prompt"}) :
          IF LooseNull(q.body.prompt) \/ variant = "index"
          THEN Finish(r, q, CheckAnswerCatch)
          ELSE Await(r, q,
                     IF variant = "legacy" THEN LegacyCall(q.body.prompt)
                     ELSE ChatCall("gpt-4o", Arr(<<UserMessage(q.body.prompt)>>)),
                     "checkAnswer.create")

\* POST /checkAnswer, from the settling of the completion
CheckAnswerSettled(r) ==
    /\ pc[r] = "checkAnswer.create"
    /\ \E res \in CompletionResults :
          /\ Finish(r, req[r], Completed(res, TRUE, CheckAnswerCatch))
          /\ local' = IF res.settled = "rejected" THEN local
                      ELSE [local EXCEPT ![r].response = res]

\* POST /question-generator, up to the await of the completion
QuestionGenerator(r) ==
    /\ pc[r] = "idle"
    /\ "/question-generator" \in Routes(variant)
    /\ local' = local
    /\ \E q \in PostRequests("/question-generator", {"prompt"}) :
          IF Falsy(q.body.prompt)
          THEN Finish(r, q, <<Reply(400, Obj([success |-> FALSE,
                                              message |-> <<"No prompt provided">>]))>>)
          ELSE Await(r, q, ChatCall("gpt-4o", Arr(<<UserMessage(q.body.prompt)>>)),
                     "question-generator.create")

\* POST /question-generator, from the settling of the completion: the
\* message is the content of the first choice as it came
QuestionGeneratorSettled(r) ==
    /\ pc[r] = "question-generator.create"
    /\ \E res \in CompletionResults :
          /\ Finish(r, req[r], Completed(res, FALSE, <<GenericFailure>>))
          /\ local' = IF res.settled = "rejected" THEN local
                      ELSE [local EXCEPT ![r].response = res]

\* GET /test
Test(r) ==
    /\ pc[r] = "idle"
    /\ "/test" \in Routes(variant)
    /\ local' = local
    /\ Finish(r, [NoRequest EXCEPT !.route = "/test", !.method = "GET"],
              <<Reply(200, Str("OK"))>>)

\* ------------------------------------------------------------ LMS routes
MissingParameters == Reply(400, Obj([error |-> <<"Missing required parameters">>]))

\* fetch(url, {headers: {Authorization: `Bearer ${apiKey}`}})
LmsCall(api, method, id, apiKey) ==
    [api |-> api, method |-> method, id |-> id,
     authorization |-> <<"Bearer ", ToStr(apiKey)>>]

\* the catch block of /canvasProxy
CanvasProxyCatch(error) ==
    <<Reply(500, Obj([error |-> error.message, stack |-> error.stack]))>>

\* POST /canvasProxy, up to the await of fetch: nothing is validated
CanvasProxy(r) ==
    /\ pc[r] = "idle"
    /\ "/canvasProxy" \in Routes(variant)
    /\ local' = local
    /\ \E q \in PostRequests("/canvasProxy", {"apiKey", "classCode"}) :
          Await(r, q, LmsCall("course", "GET", ToStr(q.body.classCode), q.body.apiKey),
                "canvasProxy.fetch")

\* POST /canvasProxy, from the settling of fetch to the await of json()
CanvasProxyFetched(r) ==
    /\ pc[r] = "canvasProxy.fetch"
    /\ \E res \in FetchResults("course") :
          IF res.settled = "rejected"
          THEN /\ Finish(r, req[r], CanvasProxyCatch(res.error))
               /\ local' = local
          ELSE /\ Suspend(r, "canvasProxy.json")
               /\ local' = [local EXCEPT ![r].response = res]

\* (mutant) /canvasProxy answering every non-ok upstream response with 500
CanvasProxyRepliesAs500(canvasResponse) ==
    LET data == json(canvasResponse.body) IN
    IF ~data.ok THEN CanvasProxyCatch(data.error)
    ELSE IF ~canvasResponse.ok THEN <<Reply(500, data.value)>>
    ELSE <<Reply(200, data.value)>>

\* what /canvasProxy sends once the body is read
CanvasProxyReplies(canvasResponse) ==
    LET data == json(canvasResponse.body) IN
    IF ~data.ok THEN CanvasProxyCatch(data.error)
    ELSE IF ~canvasResponse.ok THEN <<Reply(canvasResponse.status, data.value)>>
    ELSE <<Reply(200, data.value)>>

\* POST /canvasProxy, from the settling of json()
CanvasProxyJson(r) ==
    /\ pc[r] = "canvasProxy.json"
    /\ local' = local
    /\ Finish(r, req[r], CanvasProxyReplies(local[r].response))

\* req.method === "POST" ? req.body : req.query
Source(q) == IF q.method = "POST" THEN q.body ELSE q.query

\* the catch block of /sections, /announcements and /students
Failed(what, error) ==
    <<Reply(500, Obj([error |-> what, details |-> error.message]))>>
\* (mutant) the error of a failed request without the text read from it
RequestFailedBare(errorResponse) ==
    Err("Error", <<"Canvas API request failed">>)
RequestFailed(errorResponse) ==
    Err("Error", <<"Canvas API request failed: ">> \o errorResponse)

\* /sections, up to the await of fetch
Sections(r) ==
    /\ pc[r] = "idle"
    /\ "/sections" \in Routes(variant)
    /\ local' = local
    /\ \E q \in AnyRequests("/sections", {"apiKey", "classCode"}) :
          LET apiKey == Source(q).apiKey
              classCode == Source(q).classCode IN
          IF Falsy(apiKey) \/ Falsy(classCode)
          THEN Finish(r, q, <<MissingParameters>>)
          ELSE Await(r, q, LmsCall("sections", "GET", ToStr(classCode), apiKey),
                     "sections.fetch")

\* /sections, from the settling of fetch to the await of text() or json()
SectionsFetched(r) ==
    /\ pc[r] = "sections.fetch"
    /\ \E res \in FetchResults("sections") :
          IF res.settled = "rejected"
          THEN /\ Finish(r, req[r], Failed(<<"Failed to fetch sections">>, res.error))
               /\ local' = local
          ELSE /\ Suspend(r, IF res.ok THEN "sections.json" ELSE "sections.text")
               /\ local' = [local EXCEPT ![r].response = res]

\* what a route sends after reading the text of a non-ok response
TextReplies(what, canvasResponse) ==
    LET errorResponse == text(canvasResponse.body) IN
    IF ~errorResponse.ok THEN Failed(what, errorResponse.error)
    ELSE Failed(what, RequestFailed(errorResponse.value))

\* /sections, from the settling of text() on a non-ok response
SectionsText(r) ==
    /\ pc[r] = "sections.text"
    /\ local' = local
    /\ Finish(r, req[r], TextReplies(<<"Failed to fetch sections">>, local[r].response))

\* (mutant) /sections copying the upstream status into its answer
SectionsRepliesSameStatus(canvasResponse) ==
    LET sections == json(canvasResponse.body) IN
    IF ~sections.ok THEN Failed(<<"Failed to fetch sections">>, sections.error)
    ELSE <<Reply(canvasResponse.status, sections.value)>>

\* what /sections sends after reading the JSON of an ok response
SectionsReplies(canvasResponse) ==
    LET sections == json(canvasResponse.body) IN
    IF ~sections.ok THEN Failed(<<"Failed to fetch sections">>, sections.error)
    ELSE <<Reply(200, sections.value)>>

\* /sections, from the settling of json() on an ok response
SectionsJson(r) ==
    /\ pc[r] = "sections.json"
    /\ local' = local
    /\ Finish(r, req[r], SectionsReplies(local[r].response))

\* POST /announcements, up to the await of fetch
Announcements(r) ==
    /\ pc[r] = "idle"
    /\ "/announcements" \in Routes(variant)
    /\ local' = local
    /\ \E q \in PostRequests("/announcements", {"courseId", "title", "message", "apiKey"}) :
          IF Falsy(q.body.courseId) \/ Falsy(q.body.title) \/ Falsy(q.body.message)
             \/ Falsy(q.body.apiKey)
          THEN Finish(r, q, <<MissingParameters>>)
          ELSE Await(r, q,
                     LmsCall("discussion_topics", "POST", ToStr(q.body.courseId),
                             q.body.apiKey)
                     @@ [body |-> [title |-> q.body.title, message |-> q.body.message,
                                   is_announcement |-> TRUE]],
                     "announcements.fetch")

\* POST /announcements, from the settling of fetch: an ok response is
\* answered at once with the fixed confirmation, its body is never read
AnnouncementsFetched(r) ==
    /\ pc[r] = "announcements.fetch"
    /\ \E res \in FetchResults("discussion_topics") :
          IF res.settled = "rejected"
          THEN /\ Finish(r, req[r], Failed(<<"Failed to create announcement">>, res.error))
               /\ local' = local
          ELSE IF res.ok
          THEN /\ Finish(r, req[r],
                         <<Reply(200, Obj([message |-> <<"Announcement created">>]))>>)
               /\ local' = [local EXCEPT ![r].response = res]
          ELSE /\ Suspend(r, "announcements.text")
               /\ local' = [local EXCEPT ![r].response = res]

\* POST /announcements, from the settling of text() on a non-ok response
AnnouncementsText(r) ==
    /\ pc[r] = "announcements.text"
    /\ local' = local
    /\ Finish(r, req[r], TextReplies(<<"Failed to create announcement">>, local[r].response))

\* -------------------------------------------------------------- /students
\* sections.find((s) => s.name === sectionName): the first element, in list
\* order, whose name is the string sectionName; undefined when there is none
RECURSIVE FindFrom(_, _, _)
FindFrom(sections, sectionName, i) ==
    IF i > Len(sections) THEN Undefined
    ELSE IF sectionName.js = "string" /\ sections[i].name = sectionName.s
    THEN sections[i]
    ELSE FindFrom(sections, sectionName, i + 1)
\* (mutant) a lookup that falls back to the first section of the list
findOrFirst(sections, sectionName) ==
    IF FindFrom(sections, sectionName, 1) = Undefined /\ Len(sections) > 0
    THEN sections[1]
    ELSE FindFrom(sections, sectionName, 1)
find(sections, sectionName) == FindFrom(sections, sectionName, 1)

\* students.filter((enrollment) => enrollment.type === "StudentEnrollment")
RECURSIVE FilterFrom(_, _)
FilterFrom(students, i) ==
    IF i > Len(students) THEN <<>>
    ELSE IF students[i].type = "StudentEnrollment"
    THEN <<students[i]>> \o FilterFrom(students, i + 1)
    ELSE FilterFrom(students, i + 1)
\* (mutant) a filter whose test is always truthy (= written for ===)
filterAll(students) == students
filter(students) == FilterFrom(students, 1)

FailedStudents(error) == Failed(<<"Failed to fetch students">>, error)
NotAFunction(what) == Err("TypeError", <<what, " is not a function">>)

\* /students, up to the await of the sections fetch
Students(r) ==
    /\ pc[r] = "idle"
    /\ "/students" \in Routes(variant)
    /\ local' = local
    /\ \E q \in AnyRequests("/students", {"apiKey", "courseId", "sectionName"}) :
          LET apiKey == Source(q).apiKey
              courseId == Source(q).courseId
              sectionName == Source(q).sectionName IN
          IF Falsy(apiKey) \/ Falsy(courseId) \/ Falsy(sectionName)
          THEN Finish(r, q, <<MissingParameters>>)
          ELSE Await(r, q, LmsCall("sections", "GET", ToStr(courseId), apiKey),
                     "students.sections.fetch")

\* /students, from the settling of the sections fetch
StudentsSectionsFetched(r) ==
    /\ pc[r] = "students.sections.fetch"
    /\ \E res \in FetchResults("sections") :
          IF res.settled = "rejected"
          THEN /\ Finish(r, req[r], FailedStudents(res.error))
               /\ local' = local
          ELSE IF ~res.ok
          THEN /\ Finish(r, req[r],
                         FailedStudents(Err("Error", <<"Failed to fetch sections">>)))
               /\ local' = [local EXCEPT ![r].response = res]
          ELSE /\ Suspend(r, "students.sections.json")
               /\ local' = [local EXCEPT ![r].response = res]

\* /students, from the settling of json() on the sections response: the
\* section is looked up and the enrollments fetch issued
StudentsSectionsJson(r) ==
    /\ pc[r] = "students.sections.json"
    /\ LET sections == json(local[r].response.body)
           sectionName == Source(req[r]).sectionName IN
       IF ~sections.ok
       THEN /\ Finish(r, req[r], FailedStudents(sections.error))
            /\ local' = local
       ELSE IF sections.value.js # "array"
       THEN /\ Finish(r, req[r], FailedStudents(NotAFunction("sections.find")))
            /\ local' = local
       ELSE LET section == find(sections.value.items, sectionName) IN
            IF section = Undefined
            THEN /\ Finish(r, req[r], <<Reply(404, Obj([error |-> <<"Section not found">>]))>>)
                 /\ local' = local
            ELSE /\ Await(r, req[r],
                          LmsCall("enrollments", "GET", section.id, Source(req[r]).apiKey),
                          "students.enrollments.fetch")
                 /\ local' = [local EXCEPT ![r].section = section]

\* /students, from the settling of the enrollments fetch
StudentsEnrollmentsFetched(r) ==
    /\ pc[r] = "students.enrollments.fetch"
    /\ \E res \in FetchResults("enrollments") :
          IF res.settled = "rejected"
          THEN /\ Finish(r, req[r], FailedStudents(res.error))
               /\ local' = local
          ELSE IF ~res.ok
          THEN /\ Finish(r, req[r],
                         FailedStudents(Err("Error", <<"Failed to fetch students for the section">>)))
               /\ local' = [local EXCEPT ![r].studentsResponse = res]
          ELSE /\ Suspend(r, "students.enrollments.json")
               /\ local' = [local EXCEPT ![r].studentsResponse = res]

\* what /students sends after reading the JSON of the enrollments response
StudentsReplies(studentsResponse) ==
    LET students == json(studentsResponse.body) IN
    IF ~students.ok THEN FailedStudents(students.error)
    ELSE IF students.value.js # "array" THEN FailedStudents(NotAFunction("students.filter"))
    ELSE <<Reply(200, Arr(filter(students.value.items)))>>

\* /students, from the settling of json() on the enrollments response
StudentsEnrollmentsJson(r) ==
    /\ pc[r] = "students.enrollments.json"
    /\ local' = local
    /\ Finish(r, req[r], StudentsReplies(local[r].studentsResponse))

\* ------------------------------------------------------- the specification
Next ==
    \E r \in Reqs :
        \/ Test(r)
        \/ Ask(r)
        \/ AskSettled(r)
        \/ CheckAnswer(r)
        \/ CheckAnswerSettled(r)
        \/ QuestionGenerator(r)
        \/ QuestionGeneratorSettled(r)
        \/ CanvasProxy(r)
        \/ CanvasProxyFetched(r)
        \/ CanvasProxyJson(r)
        \/ Sections(r)
        \/ SectionsFetched(r)
        \/ SectionsText(r)
        \/ SectionsJson(r)
        \/ Announcements(r)
        \/ AnnouncementsFetched(r)
        \/ AnnouncementsText(r)
        \/ Students(r)
        \/ StudentsSectionsFetched(r)
        \/ StudentsSectionsJson(r)
        \/ StudentsEnrollmentsFetched(r)
        \/ StudentsEnrollmentsJson(r)

Spec == Init /\ [][Next]_vars

\* all the requests served concurrently: their handlers interleave at every
\* await
InitConcurrent == InitWith(Reqs)
SpecConcurrent == InitConcurrent /\ [][Next]_vars

\* ---------------------------------------------------------------- claims
CompletionRoutes == {"/ask", "/checkAnswer", "/question-generator"}
LmsRoutes == {"/canvasProxy", "/sections", "/students", "/announcements"}

\* the fields the interface table requires on each route
Required(route) ==
    CASE route = "/ask" -> IF variant = "legacy" THEN {"prompt"} ELSE {"conversations"}
      [] route \in {"/checkAnswer", "/question-generator"} -> {"prompt"}
      [] route \in {"/canvasProxy", "/sections"} -> {"apiKey", "classCode"}
      [] route = "/students" -> {"apiKey", "courseId", "sectionName"}
      [] route = "/announcements" -> {"courseId", "title", "message", "apiKey"}
      [] OTHER -> {}

\* where the route's parameters travel: the body, or for the app.all routes
\* the body of a POST and the query string of any other method
Given(q) == IF q.route \in {"/sections", "/students"} /\ q.method # "POST"
            THEN q.query ELSE q.body

\* absent, null or empty
IsMissing(v) == \/ v \in {Undefined, Null, Str("")}
                \/ (v.js = "array" /\ v.items = <<>>)
MissingRequired(q) == \E f \in Required(q.route) : IsMissing(Given(q)[f])
AllPresent(q) == q.route # "none" /\ ~MissingRequired(q)

Is2xx(status) == status >= 200 /\ status <= 299
IsObject(body) == body.js = "object"
HasField(body, field) == IsObject(body) /\ field \in DOMAIN body.f
IsErrorBody(body) ==
    \/ HasField(body, "error")
    \/ (HasField(body, "success") /\ body.f.success = FALSE)

\* the upstream response a finished LMS handler saw last
LastResponse(r) == IF local[r].studentsResponse # Undefined
                   THEN local[r].studentsResponse ELSE local[r].response
Answered(u) == u # Undefined /\ u.settled = "fulfilled"
UpstreamFailed(r) == Answered(LastResponse(r)) /\ ~LastResponse(r).ok
Finished(r, routes) == pc[r] = "done" /\ req[r].route \in routes

\* C1: on every route with required fields, a request in which a required
\* field is absent, null or empty is answered 400 with an error body, and no
\* upstream call is ever issued for it.
C1_MissingFieldRejected ==
    \A r \in Reqs :
        (req[r].route \in CompletionRoutes \cup LmsRoutes /\ MissingRequired(req[r]))
        => /\ calls[r] = <<>>
           /\ pc[r] = "done" => /\ Len(sent[r]) = 1
                                /\ sent[r][1].status = 400
                                /\ IsErrorBody(sent[r][1].body)

\* C2: every request receives exactly one response: never more than one,
\* and one has been sent by the time the handler has run to its end.
C2_ExactlyOneResponse ==
    \A r \in Reqs : /\ Len(sent[r]) <= 1
                    /\ pc[r] = "done" => Len(sent[r]) = 1

\* C3 as stated: on every LMS route, a non-2xx upstream response (whose text
\* can be read) is answered with a non-2xx status and a body whose details
\* field contains the upstream text.
C3_DetailsEverywhere ==
    \A r \in Reqs :
        (Finished(r, LmsRoutes) /\ UpstreamFailed(r) /\ text(LastResponse(r).body).ok)
        => /\ Len(sent[r]) = 1
           /\ ~Is2xx(sent[r][1].status)
           /\ HasField(sent[r][1].body, "details")
           /\ Contains(sent[r][1].body.f.details, text(LastResponse(r).body).value)

StepMessages == {<<"Failed to fetch sections">>, <<"Failed to fetch students for the section">>}

\* C3 (amended): on every LMS route a non-2xx upstream response is answered
\* with exactly one response of non-2xx status.  On /sections and
\* /announcements, when the upstream text can be read, the details field of
\* the body contains that text.  On /canvasProxy, when the upstream body
\* parses as JSON, the body is the upstream document itself, to which the
\* relay adds no details field.  On /students the details field is the fixed
\* message of the step that failed and not the upstream text.
C3_NonSuccessReported ==
    \A r \in Reqs :
        (Finished(r, LmsRoutes) /\ UpstreamFailed(r))
        => LET u == LastResponse(r)
               route == req[r].route IN
           /\ Len(sent[r]) = 1
           /\ ~Is2xx(sent[r][1].status)
           /\ (route \in {"/sections", "/announcements"} /\ text(u.body).ok)
              => /\ HasField(sent[r][1].body, "details")
                 /\ Contains(sent[r][1].body.f.details, text(u.body).value)
           /\ (route = "/canvasProxy" /\ json(u.body).ok)
              => sent[r][1].body = json(u.body).value
           /\ route = "/students"
              => /\ HasField(sent[r][1].body, "details")
                 /\ sent[r][1].body.f.details \in StepMessages
                 /\ text(u.body).ok
                    => ~Contains(sent[r][1].body.f.details, text(u.body).value)

\* a non-2xx answer to /sections whose body text was read and quoted
C3_Witness ==
    \E r \in Reqs :
        /\ Finished(r, {"/sections"}) /\ UpstreamFailed(r)
        /\ LastResponse(r).body.fmt = "json"
        /\ Len(sent[r]) = 1
        /\ Len(sent[r][1].body.f.details) > 2

\* C4 as stated: on every LMS route the status of the relay's response
\* equals the non-success status of the upstream response.
C4_SameStatusEverywhere ==
    \A r \in Reqs :
        (Finished(r, LmsRoutes) /\ UpstreamFailed(r))
        => /\ Len(sent[r]) = 1
           /\ sent[r][1].status = LastResponse(r).status

\* C4 (amended): on /canvasProxy, when the upstream answers a non-success
\* status s with a body that parses as JSON, the relay answers s; in every
\* other case of a non-success upstream status (a body that does not parse
\* on /canvasProxy, and /sections, /students and /announcements always) the
\* relay answers 500.
C4_StatusMapping ==
    \A r \in Reqs :
        (Finished(r, LmsRoutes) /\ UpstreamFailed(r))
        => /\ Len(sent[r]) = 1
           /\ sent[r][1].status =
                 IF req[r].route = "/canvasProxy" /\ json(LastResponse(r).body).ok
                 THEN LastResponse(r).status ELSE 500

\* /canvasProxy relaying an upstream 401
C4_Witness ==
    \E r \in Reqs :
        /\ Finished(r, {"/canvasProxy"}) /\ UpstreamFailed(r)
        /\ LastResponse(r).status = 401
        /\ Len(sent[r]) = 1 /\ sent[r][1].status = 401

\* both upstream calls of /students answered 2xx
BothOk(r) == /\ Answered(local[r].response) /\ local[r].response.ok
             /\ Answered(local[r].studentsResponse) /\ local[r].studentsResponse.ok
UpstreamOk(r) == IF req[r].route = "/students" THEN BothOk(r)
                 ELSE Answered(local[r].response) /\ local[r].response.ok

\* C5 as stated: on every LMS route but /students a 2xx upstream response
\* (with a JSON body) is answered with the same status and the upstream body.
C5_SameStatusAndBody ==
    \A r \in Reqs :
        (Finished(r, LmsRoutes \ {"/students"}) /\ UpstreamOk(r)
            /\ json(local[r].response.body).ok)
        => /\ Len(sent[r]) = 1
           /\ sent[r][1].status = local[r].response.status
           /\ sent[r][1].body = json(local[r].response.body).value

\* C5 (amended): on /canvasProxy and /sections a 2xx upstream response whose
\* body parses as JSON is answered 200, whatever the 2xx status was, with the
\* upstream document unmodified.  On /announcements a 2xx upstream response is
\* answered 200 with the fixed confirmation and not the upstream body.  On
\* /students two 2xx upstream responses holding JSON arrays are answered 200
\* with an array.
C5_SuccessForwarded ==
    \A r \in Reqs :
        (Finished(r, LmsRoutes) /\ UpstreamOk(r))
        => LET route == req[r].route
               u == LastResponse(r) IN
           /\ (route \in {"/canvasProxy", "/sections"} /\ json(u.body).ok)
              => sent[r] = <<Reply(200, json(u.body).value)>>
           /\ route = "/announcements"
              => sent[r] = <<Reply(200, Obj([message |-> <<"Announcement created">>]))>>
           /\ (route = "/students" /\ json(u.body).ok /\ json(u.body).value.js = "array")
              => /\ Len(sent[r]) = 1
                 /\ sent[r][1].status = 200
                 /\ sent[r][1].body.js = "array"

\* /sections forwarding a non-empty list that the upstream sent with 201
C5_Witness ==
    \E r \in Reqs :
        /\ Finished(r, {"/sections"}) /\ UpstreamOk(r)
        /\ local[r].response.status = 201
        /\ json(local[r].response.body).ok
        /\ json(local[r].response.body).value.js = "array"
        /\ Len(sent[r]) = 1 /\ sent[r][1].status = 200
        /\ sent[r][1].body.js = "array" /\ Len(sent[r][1].body.items) > 0

\* the sections call of /students was answered 2xx with a JSON array
SectionsListed(r) ==
    /\ Answered(local[r].response) /\ local[r].response.ok
    /\ json(local[r].response.body).ok
    /\ json(local[r].response.body).value.js = "array"
SectionsOf(r) == json(local[r].response.body).value.items
NameOf(q) == Given(q).sectionName
Named(section, sectionName) ==
    sectionName.js = "string" /\ section.name = sectionName.s
EnrollmentsCalled(r) == \E i \in 1..Len(calls[r]) : calls[r][i].api = "enrollments"
NotFound == Reply(404, Obj([error |-> <<"Section not found">>]))

\* C6: on /students with all required fields present, once the sections call
\* has succeeded with a list (possibly empty) none of whose sections is named
\* exactly sectionName, the relay answers 404 {"error":"Section not found"}
\* and the enrollments call is never issued.
C6_SectionNotFound ==
    \A r \in Reqs :
        (/\ req[r].route = "/students" /\ AllPresent(req[r])
         /\ SectionsListed(r)
         /\ \A i \in 1..Len(SectionsOf(r)) : ~Named(SectionsOf(r)[i], NameOf(req[r])))
        => /\ ~EnrollmentsCalled(r)
           /\ pc[r] \in {"students.sections.json", "done"}
           /\ pc[r] = "done" => sent[r] = <<NotFound>>

\* a 404 for a non-empty list of sections with other names
C6_Witness ==
    \E r \in Reqs :
        /\ Finished(r, {"/students"}) /\ SectionsListed(r)
        /\ Len(SectionsOf(r)) > 0
        /\ \A i \in 1..Len(SectionsOf(r)) : ~Named(SectionsOf(r)[i], NameOf(req[r]))
        /\ sent[r] = <<NotFound>>
        /\ Len(calls[r]) = 1

\* C7: on /ask, /checkAnswer and /question-generator every response with
\* success true carries as message the profanity-filtered text of the first
\* choice of the upstream completion.
C7_SuccessIsFiltered ==
    \A r \in Reqs : \A i \in 1..Len(sent[r]) :
        (/\ req[r].route \in CompletionRoutes
         /\ HasField(sent[r][i].body, "success")
         /\ sent[r][i].body.f.success = TRUE)
        => /\ Answered(local[r].response)
           /\ Len(local[r].response.choices) > 0
           /\ sent[r][i].body.f.message = clean(local[r].response.choices[1])

\* C8: a /checkAnswer request whose prompt is present is relayed to the model
\* provider, and when the completion succeeds with first choice t the
\* response is 200 {success: true, message: filter(t)}.
C8_CheckAnswerScenario ==
    \A r \in Reqs :
        (Finished(r, {"/checkAnswer"}) /\ ~IsMissing(req[r].body.prompt))
        => /\ Len(calls[r]) = 1
           /\ (Answered(local[r].response) /\ Len(local[r].response.choices) > 0)
              => sent[r] = <<Success(clean(local[r].response.choices[1]))>>

\* C9: no response of any route carries the stack trace of an error.
C9_NoStackTrace ==
    \A r \in Reqs : \A i \in 1..Len(sent[r]) : ~HasField(sent[r][i].body, "stack")

\* b is the subsequence of e, in the order of e, of exactly the elements of
\* e whose type is "StudentEnrollment"
IsStudentSubsequence(b, e) ==
    \E at \in [1..Len(b) -> 1..Len(e)] :
        /\ \A j, k \in 1..Len(b) : j < k => at[j] < at[k]
        /\ \A k \in 1..Len(b) : b[k] = e[at[k]]
        /\ \A i \in 1..Len(e) :
              (e[i].type = "StudentEnrollment") <=> (\E k \in 1..Len(b) : at[k] = i)

\* C10: on /students the enrollments call is issued only once the sections
\* call has returned its list, as the second and last upstream call, for the
\* id of the first section of that list named exactly sectionName; and when
\* both calls succeed with lists, the response is 200 with exactly the
\* enrollments of type "StudentEnrollment", in upstream order.
C10_StudentsOfSection ==
    \A r \in Reqs :
        req[r].route = "/students"
        => /\ EnrollmentsCalled(r)
              => /\ Len(calls[r]) = 2
                 /\ calls[r][1].api = "sections"
                 /\ calls[r][2].api = "enrollments"
                 /\ SectionsListed(r)
                 /\ \E i \in 1..Len(SectionsOf(r)) :
                       /\ Named(SectionsOf(r)[i], NameOf(req[r]))
                       /\ \A j \in 1..(i - 1) : ~Named(SectionsOf(r)[j], NameOf(req[r]))
                       /\ calls[r][2].id = SectionsOf(r)[i].id
           /\ (/\ pc[r] = "done" /\ BothOk(r)
               /\ json(local[r].studentsResponse.body).ok
               /\ json(local[r].studentsResponse.body).value.js = "array")
              => /\ Len(sent[r]) = 1
                 /\ sent[r][1].status = 200
                 /\ sent[r][1].body.js = "array"
                 /\ IsStudentSubsequence(sent[r][1].body.items,
                                         json(local[r].studentsResponse.body).value.items)

\* two sections of the requested name with different ids, the second listed
\* first, and a teacher listed before the only student
C10_Witness ==
    \E r \in Reqs :
        /\ Finished(r, {"/students"}) /\ BothOk(r) /\ SectionsListed(r)
        /\ Len(SectionsOf(r)) = 2
        /\ Named(SectionsOf(r)[1], NameOf(req[r]))
        /\ Named(SectionsOf(r)[2], NameOf(req[r]))
        /\ SectionsOf(r)[1].id = 2 /\ SectionsOf(r)[2].id = 1
        /\ calls[r][2].id = 2
        /\ json(local[r].studentsResponse.body).ok
        /\ json(local[r].studentsResponse.body).value.js = "array"
        /\ LET e == json(local[r].studentsResponse.body).value.items IN
           /\ Len(e) = 2
           /\ e[1].type = "TeacherEnrollment" /\ e[2].type = "StudentEnrollment"
           /\ sent[r] = <<Reply(200, Arr(<<e[2]>>))>>

\* What a request handled alone is answered, as a function of the revision,
\* of the request q and of the upstream responses l to its own calls (a call
\* that was made and left no response rejected).
AloneCompletion(l, valid, filtered, failure) ==
    IF ~valid \/ ~Answered(l.response) THEN failure
    ELSE IF l.response.choices = <<>> THEN failure
    ELSE <<Success(IF filtered THEN clean(l.response.choices[1])
                   ELSE l.response.choices[1])>>

AloneStudents(q, l) ==
    LET failed(message) == <<Reply(500, Obj([error |-> <<"Failed to fetch students">>,
                                             details |-> message]))>>
        sections == json(l.response.body)
        students == json(l.studentsResponse.body) IN
    IF ~Answered(l.response) THEN failed(NetworkError.message)
    ELSE IF ~l.response.ok THEN failed(<<"Failed to fetch sections">>)
    ELSE IF ~sections.ok THEN failed(sections.error.message)
    ELSE IF sections.value.js # "array" THEN failed(<<"sections.find", " is not a function">>)
    ELSE IF \A i \in 1..Len(sections.value.items) :
               ~Named(sections.value.items[i], NameOf(q))
    THEN <<NotFound>>
    ELSE IF ~Answered(l.studentsResponse) THEN failed(NetworkError.message)
    ELSE IF ~l.studentsResponse.ok THEN failed(<<"Failed to fetch students for the section">>)
    ELSE IF ~students.ok THEN failed(students.error.message)
    ELSE IF students.value.js # "array" THEN failed(<<"students.filter", " is not a function">>)
    ELSE <<Reply(200, Arr(SelectSeq(students.value.items,
                                    LAMBDA e : e.type = "StudentEnrollment")))>>

AloneLms(q, l) ==
    LET what == IF q.route = "/sections" THEN <<"Failed to fetch sections">>
                ELSE <<"Failed to create announcement">>
        failed(message) == <<Reply(500, Obj([error |-> what, details |-> message]))>>
        u == l.response IN
    IF ~Answered(u) THEN failed(NetworkError.message)
    ELSE IF ~u.ok
    THEN IF text(u.body).ok
         THEN failed(<<"Canvas API request failed: ">> \o text(u.body).value)
         ELSE failed(text(u.body).error.message)
    ELSE IF q.route = "/announcements"
    THEN <<Reply(200, Obj([message |-> <<"Announcement created">>]))>>
    ELSE IF json(u.body).ok THEN <<Reply(200, json(u.body).value)>>
    ELSE failed(json(u.body).error.message)

AloneCanvasProxy(l) ==
    LET thrown(error) == <<Reply(500, Obj([error |-> error.message, stack |-> error.stack]))>>
        u == l.response IN
    IF ~Answered(u) THEN thrown(NetworkError)
    ELSE IF ~json(u.body).ok THEN thrown(json(u.body).error)
    ELSE <<Reply(IF u.ok THEN 200 ELSE u.status, json(u.body).value)>>

Alone(v, q, l) ==
    CASE q.route = "/test" -> <<Reply(200, Str("OK"))>>
      [] q.route = "/ask" ->
            AloneCompletion(l, IF v = "legacy" THEN ~LooseNull(q.body.prompt)
                               ELSE ~IsMissing(q.body.conversations),
                            TRUE, IF v = "legacy" THEN <<>> ELSE <<GenericFailure>>)
      [] q.route = "/checkAnswer" ->
            IF v = "index" THEN <<>>
            ELSE AloneCompletion(l, ~LooseNull(q.body.prompt), TRUE,
                                 IF v = "legacy" THEN <<>> ELSE <<GenericFailure>>)
      [] q.route = "/question-generator" ->
            IF IsMissing(q.body.prompt)
            THEN <<Reply(400, Obj([success |-> FALSE, message |-> <<"No prompt provided">>]))>>
            ELSE AloneCompletion(l, TRUE, FALSE, <<GenericFailure>>)
      [] q.route = "/canvasProxy" -> AloneCanvasProxy(l)
      [] q.route \in {"/sections", "/announcements", "/students"} ->
            IF \E f \in Required(q.route) : IsMissing(Given(q)[f])
            THEN <<MissingParameters>>
            ELSE IF q.route = "/students" THEN AloneStudents(q, l)
            ELSE AloneLms(q, l)

\* request r alone may have changed in this step
OthersUntouched(r) ==
    \A s \in Reqs \ {r} :
        /\ pc'[s] = pc[s] /\ req'[s] = req[s] /\ calls'[s] = calls[s]
        /\ sent'[s] = sent[s] /\ local'[s] = local[s]

\* every finished request was answered as it would have been alone
AnsweredAsAlone ==
    \A r \in Reqs : pc[r] = "done" => sent[r] = Alone(variant, req[r], local[r])

\* C11: under every interleaving of the handlers of concurrently served
\* requests at their awaits, a step of one handler writes nothing but the
\* state of its own request (and never the process-wide configuration), and
\* every finished request has been answered as a function of its own fields
\* and of the upstream responses to its own calls: as it would have been
\* had it been handled alone.
C11_RequestsIsolated ==
    /\ []AnsweredAsAlone
    /\ [][variant' = variant /\ \E r \in Reqs : OthersUntouched(r)]_vars

\* two /students requests with the same fields, served concurrently, each
\* answered from the sections its own call returned: one 200, one 404
C11_Witness ==
    \E r, s \in Reqs :
        /\ r # s
        /\ Finished(r, {"/students"}) /\ Finished(s, {"/students"})
        /\ req[r] = req[s]
        /\ local[r].response # local[s].response
        /\ Len(sent[r]) = 1 /\ sent[r][1].status = 200
        /\ sent[s] = <<NotFound>>

====
